---- MODULE Spec2Model ----
(***************************************************************************)
(* Model of the survey data validation script src/appnew.py: the column    *)
(* resolvers expand_range / expand_prefix, the skip-condition evaluator    *)
(* get_skip_mask, and the main validation loop that appends violation      *)
(* records to `report`, one check type after the other, rule after rule.   *)
(*                                                                         *)
(* Text is modelled by TLA+ strings (Len, SubSeq and \o act on them as on  *)
(* sequences of characters), so parsing is computed character by           *)
(* character as the Python code does it.  A pandas cell is a record        *)
(* [t, n, s]: t = "null" (NaN), "num" (the integer n) or "str" (the text   *)
(* s).  A Python exception that nothing catches ends the script: the       *)
(* operators that can raise return a record with a `raised` flag and the   *)
(* loop moves to pc = "fault".                                             *)
(***************************************************************************)
EXTENDS Integers, Sequences, FiniteSets, TLC

VARIABLES
    df,            \* the dataset (line 16-20)
    rules,         \* the rows of rules_df the loop has read so far
    pc,            \* the place of the script: "rule", one of the check branches, "done", "fault"
    q,             \* the loop's locals of lines 81-86
    check_types,
    conditions,
    related_cols,
    skip_mask,
    report,        \* the violation list
    origin,        \* for each record of report, the number of the rule that appended it
    call,          \* the argument of a direct call of a utility
    ret            \* what the call returned

vars == <<df, rules, pc, q, check_types, conditions, related_cols,
          skip_mask, report, origin, call, ret>>

(***************************************************************************)
(* Bounds of the model.                                                    *)
(***************************************************************************)
\* number of respondent rows of the dataset
NumRespondents == 2
\* number of rows of the rule table
MaxRules == 2

(***************************************************************************)
(* Python string primitives.                                               *)
(***************************************************************************)
Ch(s, i) == SubSeq(s, i, i)

IsSpace(c) == c = " "

Digits == "0123456789"
UpperCase == "ABCDEFGHIJKLMNOPQRSTUVWXYZ"
LowerCase == "abcdefghijklmnopqrstuvwxyz"

\* position of the one-character string c in the string alphabet, 0 if absent
IndexIn(c, alphabet) ==
    IF \E i \in 1..Len(alphabet) : Ch(alphabet, i) = c
    THEN CHOOSE i \in 1..Len(alphabet) : Ch(alphabet, i) = c
    ELSE 0

\* the characters of a string
Chars(alphabet) == {Ch(alphabet, i) : i \in 1..Len(alphabet)}

DigitChars == Chars(Digits)
UpperChars == Chars(UpperCase)
LowerChars == Chars(LowerCase)

\* the value of each decimal digit
DigitValue == [c \in DigitChars |-> IndexIn(c, Digits) - 1]

\* the lower-case letter of each upper-case letter
LowerOf == [c \in UpperChars |-> Ch(LowerCase, IndexIn(c, UpperCase))]

IsDigit(c) == c \in DigitChars

\* a character of the regular expression class [A-Za-z0-9_]
IsWordChar(c) == c \in DigitChars \/ c \in UpperChars \/ c \in LowerChars \/ c = "_"

LowerCh(c) == IF c \in UpperChars THEN LowerOf[c] ELSE c

RECURSIVE Lower(_)
\* str.lower()
Lower(s) == IF s = "" THEN "" ELSE LowerCh(Ch(s, 1)) \o Lower(SubSeq(s, 2, Len(s)))

RECURSIVE LStrip(_)
LStrip(s) ==
    IF s # "" /\ IsSpace(Ch(s, 1)) THEN LStrip(SubSeq(s, 2, Len(s))) ELSE s

RECURSIVE RStrip(_)
RStrip(s) ==
    IF s # "" /\ IsSpace(Ch(s, Len(s))) THEN RStrip(SubSeq(s, 1, Len(s) - 1)) ELSE s

\* str.strip()
Strip(s) == RStrip(LStrip(s))

\* s.startswith(p)
StartsWith(s, p) == Len(p) <= Len(s) /\ SubSeq(s, 1, Len(p)) = p

\* s.endswith(p)
EndsWith(s, p) == Len(p) <= Len(s) /\ SubSeq(s, Len(s) - Len(p) + 1, Len(s)) = p

\* s.find(sub) counted from 1: the first position of sub in s, 0 if there is none
Find(sub, s) ==
    LET hits == {i \in 1..(Len(s) - Len(sub) + 1) : SubSeq(s, i, i + Len(sub) - 1) = sub}
    IN IF hits = {} THEN 0 ELSE CHOOSE i \in hits : \A j \in hits : i <= j

\* sub in s
Contains(sub, s) == Find(sub, s) # 0

RECURSIVE Split(_, _)
\* s.split(sep): every piece between the occurrences of sep
Split(s, sep) ==
    LET i == Find(sep, s)
    IN IF i = 0 THEN <<s>>
       ELSE <<SubSeq(s, 1, i - 1)>> \o Split(SubSeq(s, i + Len(sep), Len(s)), sep)

\* s.split(sep, 1): at most two pieces
SplitOnce(s, sep) ==
    LET i == Find(sep, s)
    IN IF i = 0 THEN <<s>>
       ELSE <<SubSeq(s, 1, i - 1), SubSeq(s, i + Len(sep), Len(s))>>

RECURSIVE Replace(_, _, _)
\* s.replace(old, new)
Replace(s, old, new) ==
    LET i == Find(old, s)
    IN IF i = 0 THEN s
       ELSE SubSeq(s, 1, i - 1) \o new \o Replace(SubSeq(s, i + Len(old), Len(s)), old, new)

\* s.split()[0]: the first whitespace-separated token of a non-blank string
FirstToken(s) ==
    LET t == LStrip(s)
        i == Find(" ", t)
    IN IF i = 0 THEN t ELSE SubSeq(t, 1, i - 1)

\* the length of the run of whitespace of s that starts at position i
RECURSIVE SpaceRun(_, _)
SpaceRun(s, i) ==
    IF i <= Len(s) /\ IsSpace(Ch(s, i)) THEN 1 + SpaceRun(s, i + 1) ELSE 0

\* the length of the leftmost match of \s+word\s+ (ignoring case) that starts at
\* position i of s, 0 if there is none
KeywordMatchAt(s, i, word) ==
    LET a == SpaceRun(s, i)
        w == i + a
        b == SpaceRun(s, w + Len(word))
    IN IF a > 0 /\ w + Len(word) - 1 <= Len(s)
          /\ Lower(SubSeq(s, w, w + Len(word) - 1)) = word /\ b > 0
       THEN a + Len(word) + b
       ELSE 0

RECURSIVE ReSplit(_, _)
\* re.split(r'\s+word\s+', s, flags=re.IGNORECASE)
ReSplit(s, word) ==
    LET hits == {i \in 1..Len(s) : KeywordMatchAt(s, i, word) > 0}
    IN IF hits = {} THEN <<s>>
       ELSE LET i == CHOOSE k \in hits : \A j \in hits : k <= j
                n == KeywordMatchAt(s, i, word)
            IN <<SubSeq(s, 1, i - 1)>> \o ReSplit(SubSeq(s, i + n, Len(s)), word)

AllDigits(s) == s # "" /\ \A i \in 1..Len(s) : IsDigit(Ch(s, i))

RECURSIVE ParseInt(_)
\* int(s) of a string of decimal digits
ParseInt(s) ==
    IF s = "" THEN 0
    ELSE 10 * ParseInt(SubSeq(s, 1, Len(s) - 1)) + DigitValue[Ch(s, Len(s))]

\* float(s) for the literals of the modelled rule texts: surrounding blanks are
\* ignored, a string of decimal digits converts, anything else raises ValueError
float(s) ==
    LET t == Strip(s)
    IN IF AllDigits(t) THEN [raised |-> FALSE, v |-> ParseInt(t)]
       ELSE [raised |-> TRUE, v |-> 0]

\* str(x) of a float with an integral value: 1.0 prints as "1.0"
FloatStr(n) == ToString(n) \o ".0"

\* membership in a Python list
InList(x, list) == \E i \in 1..Len(list) : list[i] = x

\* list.index(x): the first position of x
ListIndex(x, list) == CHOOSE i \in 1..Len(list) : list[i] = x /\ \A j \in 1..(i - 1) : list[j] # x

RECURSIVE Concat(_)
\* the concatenation of a sequence of sequences
Concat(ss) == IF ss = <<>> THEN <<>> ELSE Head(ss) \o Concat(Tail(ss))

(***************************************************************************)
(* The dataset: pandas cells, columns and their dtype.                     *)
(***************************************************************************)
\* the RespondentID of a rule-level record (Python None); respondent ids are 1, 2, ...
None == 0

Null == [t |-> "null", n |-> 0, s |-> ""]
Num(n) == [t |-> "num", n |-> n, s |-> ""]
Str(s) == [t |-> "str", n |-> 0, s |-> s]

\* df.columns
Columns == <<"RespondentID", "Q1", "Q2", "A1", "A2">>

Row(a, b, c, d) == [Q1 |-> a, Q2 |-> b, A1 |-> c, A2 |-> d]

\* The respondent rows the model draws the dataset from.  Q2 may hold text, the
\* other columns hold integers or nothing.
RowSet ==
    { Row(Num(1), Null, Num(0), Num(0)),
      Row(Num(2), Num(5), Num(1), Null),
      Row(Num(1), Str(" "), Num(6), Num(1)),
      Row(Null, Num(6), Num(3), Num(3)) }

Respondents == 1..NumRespondents

Datasets == [Respondents -> RowSet]

\* df[col] at row r; the RespondentID column holds the row number
Cell(d, r, col) == IF col = "RespondentID" THEN Num(r) ELSE d[r][col]

\* the dtype pandas gives the column: object with any text in it, float64 with a
\* NaN among numbers, int64 otherwise
Dtype(d, col) ==
    IF \E r \in DOMAIN d : Cell(d, r, col).t = "str" THEN "object"
    ELSE IF \E r \in DOMAIN d : Cell(d, r, col).t = "null" THEN "float64"
    ELSE "int64"

\* df[col].isna()
isna(d, r, col) == Cell(d, r, col).t = "null"

\* df[col].astype(str): NaN prints "nan", a number of a float64 column "1.0"
astype_str(d, r, col) ==
    LET c == Cell(d, r, col)
    IN CASE c.t = "null" -> "nan"
         [] c.t = "str" -> c.s
         [] OTHER -> IF Dtype(d, col) = "float64" THEN FloatStr(c.n) ELSE ToString(c.n)

\* pd.to_numeric(df[col], errors="coerce"): [nan, v]
to_numeric(d, r, col) ==
    LET c == Cell(d, r, col)
    IN CASE c.t = "null" -> [nan |-> TRUE, v |-> 0]
         [] c.t = "num" -> [nan |-> FALSE, v |-> c.n]
         [] OTHER -> [nan |-> float(c.s).raised, v |-> float(c.s).v]

\* Offenders with the rows taken last to first
OffendersReversed(d, mask) ==
    LET ids == SelectSeq([r \in DOMAIN d |-> r], LAMBDA r : mask[r])
    IN [i \in 1..Len(ids) |-> ids[Len(ids) + 1 - i]]

\* df.loc[mask, "RespondentID"]: the ids of the rows the mask selects, in row order
Offenders(d, mask) ==
    SelectSeq([r \in DOMAIN d |-> r], LAMBDA r : mask[r])

(***************************************************************************)
(* Column resolvers.                                                       *)
(***************************************************************************)
\* re.match(r"([A-Za-z0-9_]+?)(\d+)$", s): the shortest non-empty prefix of word
\* characters that leaves only digits
BaseMatch(s) ==
    LET ks == {k \in 1..(Len(s) - 1) :
                 /\ \A i \in 1..k : IsWordChar(Ch(s, i))
                 /\ AllDigits(SubSeq(s, k + 1, Len(s)))}
    IN IF ks = {} THEN [ok |-> FALSE, prefix |-> "", num |-> 0]
       ELSE LET k == CHOOSE x \in ks : \A y \in ks : x <= y
            IN [ok |-> TRUE, prefix |-> SubSeq(s, 1, k),
                num |-> ParseInt(SubSeq(s, k + 1, Len(s)))]

\* [f"{prefix}{i}" for i in range(lo, hi + 1) if f"{prefix}{i}" in df_cols]
RECURSIVE Enumerate(_, _, _, _)
Enumerate(prefix, lo, hi, df_cols) ==
    IF lo > hi THEN <<>>
    ELSE (IF InList(prefix \o ToString(lo), df_cols)
          THEN <<prefix \o ToString(lo)>> ELSE <<>>)
         \o Enumerate(prefix, lo + 1, hi, df_cols)

\* expand_range(expr, df_cols): [raised, cols]; unpacking other than two pieces of
\* expr.split("to") raises ValueError
expand_range(expr0, df_cols) ==
    LET expr == Strip(expr0)
        literal == IF InList(expr, df_cols) THEN <<expr>> ELSE <<>>
        pieces == Split(expr, "to")
    IN IF ~Contains("to", expr) THEN [raised |-> FALSE, cols |-> literal]
       ELSE IF Len(pieces) # 2 THEN [raised |-> TRUE, cols |-> <<>>]
       ELSE LET base == BaseMatch(Strip(pieces[1]))
                base2 == BaseMatch(Strip(pieces[2]))
            IN IF base.ok /\ base2.ok /\ base.prefix = base2.prefix
               THEN [raised |-> FALSE,
                     cols |-> Enumerate(base.prefix, base.num, base2.num, df_cols)]
               ELSE [raised |-> FALSE, cols |-> literal]

\* expand_prefix(prefix, df_cols)
expand_prefix(prefix, df_cols) ==
    SelectSeq(df_cols, LAMBDA c : StartsWith(c, prefix))

(***************************************************************************)
(* The skip-condition evaluator.                                           *)
(***************************************************************************)
\* the comparators in the order the loop of line 58 tries them
Operators == <<"<=", ">=", "!=", "<>", "<", ">", "=">>

\* the first comparator of the list found in the clause, "" if there is none
FoundOp(part) ==
    LET hits == {i \in 1..Len(Operators) : Contains(Operators[i], part)}
    IN IF hits = {} THEN ""
       ELSE Operators[CHOOSE i \in hits : \A j \in hits : i <= j]

\* Lines 57-60 for one AND-clause: the comparator found in
\* part.strip().replace("<>", "!="), and col, val = the two stripped pieces of
\* part.split(op, 1); op = "" when the loop of line 58 finds no comparator
ParsePart(part0) ==
    LET part == Replace(Strip(part0), "<>", "!=")
        op == FoundOp(part)
        pieces == SplitOnce(part, op)
    IN IF op = "" THEN [op |-> "", col |-> "", val |-> ""]
       ELSE [op |-> op, col |-> Strip(pieces[1]), val |-> Strip(pieces[2])]

IsNumericOp(op) == op \in {"<=", ">=", "<", ">"}

\* float(val) of line 65 raises ValueError for this clause
PartRaises(pred) ==
    /\ IsNumericOp(pred.op)
    /\ InList(pred.col, Columns)
    /\ float(pred.val).raised

\* what one clause leaves of sub_mask at row r: a clause without a comparator
\* leaves the for loop of line 58 without touching sub_mask
PartHolds(pred, d, r) ==
    LET x == to_numeric(d, r, pred.col)
        y == float(pred.val).v
        text == Strip(astype_str(d, r, pred.col))
    IN IF pred.op = "" THEN TRUE
       ELSE IF ~InList(pred.col, Columns) THEN FALSE
       ELSE CASE pred.op = "<=" -> ~x.nan /\ x.v <= y
              [] pred.op = ">=" -> ~x.nan /\ x.v >= y
              [] pred.op = "<" -> ~x.nan /\ x.v < y
              [] pred.op = ">" -> ~x.nan /\ x.v > y
              [] pred.op = "!=" -> text # pred.val
              [] pred.op = "<>" -> text # pred.val
              [] OTHER -> text = pred.val

\* condition_text stripped of blanks and of a leading "if", lines 48-50
ConditionBody(condition_text) ==
    LET t == Strip(condition_text)
    IN IF StartsWith(Lower(t), "if") THEN Strip(SubSeq(t, 3, Len(t))) ELSE t

RECURSIVE ParseParts(_)
\* the parsed AND-clauses of the list and_parts
ParseParts(and_parts) ==
    IF and_parts = <<>> THEN <<>>
    ELSE <<ParsePart(Head(and_parts))>> \o ParseParts(Tail(and_parts))

RECURSIVE ParseGroups(_)
\* for each OR-group its parsed AND-clauses, lines 53-54
ParseGroups(or_groups) ==
    IF or_groups = <<>> THEN <<>>
    ELSE <<ParseParts(ReSplit(Head(or_groups), "and"))>> \o ParseGroups(Tail(or_groups))

\* sub_mask of one OR-group at row r
SubMask(preds, d, r) == \A p \in 1..Len(preds) : PartHolds(preds[p], d, r)

\* get_skip_mask(condition_text, df): [raised, mask]
get_skip_mask(condition_text, d) ==
    LET groups == ParseGroups(ReSplit(ConditionBody(condition_text), "or"))
    IN [raised |-> \E g \in 1..Len(groups) :
                      \E p \in 1..Len(groups[g]) : PartRaises(groups[g][p]),
        mask |-> [r \in DOMAIN d |-> \E g \in 1..Len(groups) : SubMask(groups[g], d, r)]]

(***************************************************************************)
(* The main validation loop.                                               *)
(***************************************************************************)
\* one dict appended to report
Rec(rid, question, check, issue) ==
    [RespondentID |-> rid, Question |-> question, Check_Type |-> check, Issue |-> issue]

\* skip_mask = None
NoMask == <<>>

Rule(question, check_type, condition) ==
    [Question |-> question, Check_Type |-> check_type, Condition |-> condition]

\* The rows the model draws the rule table from.  Multi-Select is applied to
\* the numeric A columns only.
RuleSet ==
    { Rule("Q2", "Skip;Range;Straightliner", "if Q1=1 then Q2;1-5"),
      Rule("A", "skip; range; missing", "if Q1=1 then A1 to A2;1-5"),
      Rule("A", "range;missing", "1-5"),
      Rule("A", "Range;Straightliner;Multi-Select;OpenEnd_Junk;Duplicate", "abc"),
      Rule("Q2", "skip;missing", "if Q1>abc then Q2"),
      Rule("A1", "skip;range", "if foo and Q1=2 or A2>=1 then Z_;0-1"),
      Rule("Q1", "skip", "if A1<=1 and Q2 != 5 then Z9 ") }

\* [f(c) for c in str(cell).split(";")]
SplitCells(text) == Split(text, ";")

\* f"Skip condition references missing variable '{col}'"
MissingVariableIssue(col) == "Skip condition references missing variable '" \o col \o "'"

\* blank_mask without the test for text that trims to empty
blank_mask_null_only(d, col, mask) ==
    [r \in DOMAIN d |-> isna(d, r, col) /\ mask[r]]

\* blank_mask of line 114
blank_mask(d, col, mask) ==
    [r \in DOMAIN d |-> (isna(d, r, col) \/ Strip(astype_str(d, r, col)) = "") /\ mask[r]]

\* answered_mask of line 122
answered_mask(d, col, mask) ==
    [r \in DOMAIN d |-> (~isna(d, r, col) /\ Strip(astype_str(d, r, col)) # "") /\ ~mask[r]]

\* the records of [rid for rid in offenders] with one Question, Check_Type and Issue
RecordsFor(d, mask, question, check, issue) ==
    LET ids == Offenders(d, mask)
    IN [i \in 1..Len(ids) |-> Rec(ids[i], question, check, issue)]

\* the body of the loop of line 103 for one target column
SkipColumnRecords(d, col, mask) ==
    IF ~InList(col, Columns)
    THEN <<Rec(None, col, "Skip", MissingVariableIssue(col))>>
    ELSE RecordsFor(d, blank_mask(d, col, mask), col, "Skip", "Blank but should be answered")
         \o RecordsFor(d, answered_mask(d, col, mask), col, "Skip",
                       "Answered but should be skipped")

\* skip_target_cols of lines 95-101: [raised, cols]
skip_target_cols(then_part) ==
    LET then_expr == FirstToken(then_part)
    IN IF Strip(then_part) = "" THEN [raised |-> TRUE, cols |-> <<>>]
       ELSE IF Contains("to", then_part) THEN expand_range(then_part, Columns)
       ELSE IF EndsWith(then_expr, "_")
            THEN [raised |-> FALSE, cols |-> expand_prefix(then_expr, Columns)]
       ELSE [raised |-> FALSE, cols |-> <<then_expr>>]

\* The skip branch, lines 88-127: [raised, mask, recs].  mask is NoMask when the
\* branch leaves skip_mask at None.
SkipBranch(d, types, conds) ==
    LET skip_index == ListIndex("skip", types)
        condition == conds[skip_index]
        pieces == SplitOnce(condition, "then")
        m == get_skip_mask(pieces[1], d)
        t == skip_target_cols(pieces[2])
        unchanged == [raised |-> FALSE, mask |-> NoMask, recs |-> <<>>]
        fault == [raised |-> TRUE, mask |-> NoMask, recs |-> <<>>]
    IN IF ~InList("skip", types) THEN unchanged
       ELSE IF skip_index > Len(conds) THEN fault
       ELSE IF ~Contains("then", Lower(condition)) THEN unchanged
       ELSE IF Len(pieces) # 2 THEN fault
       ELSE IF m.raised \/ t.raised THEN fault
       ELSE [raised |-> FALSE, mask |-> m.mask,
             recs |-> Concat([i \in 1..Len(t.cols) |->
                                  SkipColumnRecords(d, t.cols[i], m.mask)])]

\* min_val, max_val = map(float, condition.split("-")), after the test of line 135:
\* [raised, min_val, max_val]
RangeBounds(condition) ==
    LET pieces == Split(condition, "-")
    IN IF ~Contains("-", condition) \/ Len(pieces) # 2
          \/ float(pieces[1]).raised \/ float(pieces[2]).raised
       THEN [raised |-> TRUE, min_val |-> 0, max_val |-> 0]
       ELSE [raised |-> FALSE, min_val |-> float(pieces[1]).v,
             max_val |-> float(pieces[2]).v]

\* df[col].between(min_val, max_val) at row r: False for NaN
between(d, r, col, min_val, max_val) ==
    LET c == Cell(d, r, col)
    IN c.t = "num" /\ min_val <= c.n /\ c.n <= max_val

\* comparing the text of an object column with a float raises TypeError
BetweenRaises(d, col) == \E r \in DOMAIN d : Cell(d, r, col).t = "str"

\* effective_mask of line 138
effective_mask(d, mask) == IF mask # NoMask THEN mask ELSE [r \in DOMAIN d |-> TRUE]

\* out_of_range_mask of line 139
out_of_range_mask(d, col, b, mask) ==
    [r \in DOMAIN d |-> ~between(d, r, col, b.min_val, b.max_val) /\ effective_mask(d, mask)[r]]

\* f"Value out of range ({min_val}-{max_val})"
OutOfRangeIssue(b) ==
    "Value out of range (" \o FloatStr(b.min_val) \o "-" \o FloatStr(b.max_val) \o ")"

\* the try/except of lines 134-148 for one column
RangeColumnRecords(d, col, condition, mask) ==
    LET b == RangeBounds(condition)
    IN IF b.raised \/ BetweenRaises(d, col)
       THEN <<Rec(None, col, "Range", "Invalid range condition (" \o condition \o ")")>>
       ELSE RecordsFor(d, out_of_range_mask(d, col, b, mask), col, "Range", OutOfRangeIssue(b))

\* The range branch, lines 130-148: [raised, recs]
RangeBranch(d, types, conds, cols, mask) ==
    LET range_index == ListIndex("range", types)
    IN IF ~InList("range", types) THEN [raised |-> FALSE, recs |-> <<>>]
       ELSE IF range_index > Len(conds) THEN [raised |-> TRUE, recs |-> <<>>]
       ELSE [raised |-> FALSE,
             recs |-> Concat([i \in 1..Len(cols) |->
                                  RangeColumnRecords(d, cols[i], conds[range_index], mask)])]

\* df[related_cols].nunique(axis=1) at row r: the distinct values, NaN dropped
nunique(d, r, cols) ==
    Cardinality({Cell(d, r, cols[i]) : i \in {j \in 1..Len(cols) : ~isna(d, r, cols[j])}})

RECURSIVE Join(_, _)
\* sep.join(list)
Join(list, sep) ==
    IF list = <<>> THEN ""
    ELSE IF Len(list) = 1 THEN list[1]
    ELSE list[1] \o sep \o Join(Tail(list), sep)

\* The straightliner branch, lines 151-161
StraightlinerBranch(d, types, cols) ==
    IF InList("straightliner", types) /\ Len(cols) > 1
    THEN RecordsFor(d, [r \in DOMAIN d |-> nunique(d, r, cols) = 1], Join(cols, ","),
                    "Straightliner", "Same response across all items")
    ELSE <<>>

\* The missing branch, lines 164-171
MissingBranch(d, types, cols) ==
    IF InList("missing", types)
    THEN Concat([i \in 1..Len(cols) |->
                     RecordsFor(d, [r \in DOMAIN d |-> isna(d, r, cols[i])], cols[i],
                                "Missing", "Value is missing")])
    ELSE <<>>

\* isin01 with 0 left out of the allowed values
isin01_only_one(d, r, col) == Cell(d, r, col).t = "num" /\ Cell(d, r, col).n = 1

\* df[col].isin([0, 1]) at row r
isin01(d, r, col) == Cell(d, r, col).t = "num" /\ Cell(d, r, col).n \in {0, 1}

RECURSIVE RowSum(_, _, _)
\* df[related_cols].fillna(0).sum(axis=1) at row r
RowSum(d, r, cols) ==
    IF cols = <<>> THEN 0
    ELSE Cell(d, r, Head(cols)).n + RowSum(d, r, Tail(cols))

\* the per-column loop of the multi-select branch, lines 175-180
InvalidValueRecords(d, cols) ==
    Concat([i \in 1..Len(cols) |->
                RecordsFor(d, [r \in DOMAIN d |-> ~isin01(d, r, cols[i])], cols[i],
                           "Multi-Select", "Invalid value (not 0/1)")])

\* the question-level part of the multi-select branch, lines 181-186
NoOptionsRecords(d, question, cols) ==
    IF Len(cols) > 0
    THEN RecordsFor(d, [r \in DOMAIN d |-> RowSum(d, r, cols) = 0], question,
                    "Multi-Select", "No options selected")
    ELSE <<>>

\* The multi-select branch, lines 174-186
MultiSelectBranch(d, types, question, cols) ==
    IF InList("multi-select", types)
    THEN InvalidValueRecords(d, cols) \o NoOptionsRecords(d, question, cols)
    ELSE <<>>

\* The open-end branch, lines 189-196
OpenEndJunkBranch(d, types, cols) ==
    IF InList("openend_junk", types)
    THEN Concat([i \in 1..Len(cols) |->
                     RecordsFor(d, [r \in DOMAIN d |-> Len(astype_str(d, r, cols[i])) < 3],
                                cols[i], "OpenEnd_Junk",
                                "Open-end looks like junk/low-effort")])
    ELSE <<>>

\* The duplicate branch, lines 199-205
DuplicateBranch(d, types, cols) ==
    IF InList("duplicate", types)
    THEN Concat([i \in 1..Len(cols) |->
                     RecordsFor(d, [r \in DOMAIN d |->
                                        \E o \in DOMAIN d :
                                            o # r /\ Cell(d, o, cols[i]) = Cell(d, r, cols[i])],
                                cols[i], "Duplicate", "Duplicate value found")])
    ELSE <<>>

\* report.append(...) for each record of recs, by the rule being evaluated
Appended(recs) ==
    /\ report' = report \o recs
    /\ origin' = origin \o [i \in 1..Len(recs) |-> Len(rules)]

Locals == <<q, check_types, conditions, related_cols>>

Init ==
    /\ df \in Datasets
    /\ rules = <<>>
    /\ pc = "rule"
    /\ q = ""
    /\ check_types = <<>>
    /\ conditions = <<>>
    /\ related_cols = <<>>
    /\ skip_mask = NoMask
    /\ report = <<>>
    /\ origin = <<>>
    /\ call = <<>>
    /\ ret = <<>>

\* lines 80-86: the next row of the rule table
BeginRule ==
    /\ pc = "rule"
    /\ Len(rules) < MaxRules
    /\ \E rule \in RuleSet :
        LET types == SplitCells(rule.Check_Type)
            conds == SplitCells(rule.Condition)
        IN /\ rules' = Append(rules, rule)
           /\ q' = Strip(rule.Question)
           /\ check_types' = [i \in 1..Len(types) |-> Lower(Strip(types[i]))]
           /\ conditions' = [i \in 1..Len(conds) |-> Strip(conds[i])]
           /\ related_cols' = IF InList(Strip(rule.Question), Columns)
                              THEN <<Strip(rule.Question)>>
                              ELSE expand_prefix(Strip(rule.Question), Columns)
    /\ skip_mask' = NoMask
    /\ pc' = "skip"
    /\ UNCHANGED <<df, report, origin, call, ret>>

\* lines 88-127
SkipCheck ==
    /\ pc = "skip"
    /\ LET b == SkipBranch(df, check_types, conditions)
       IN /\ pc' = IF b.raised THEN "fault" ELSE "range"
          /\ skip_mask' = b.mask
          /\ Appended(b.recs)
    /\ UNCHANGED <<df, rules, Locals, call, ret>>

\* lines 130-148
RangeCheck ==
    /\ pc = "range"
    /\ LET b == RangeBranch(df, check_types, conditions, related_cols, skip_mask)
       IN /\ pc' = IF b.raised THEN "fault" ELSE "straightliner"
          /\ Appended(b.recs)
    /\ UNCHANGED <<df, rules, Locals, skip_mask, call, ret>>

\* lines 151-161
StraightlinerCheck ==
    /\ pc = "straightliner"
    /\ Appended(StraightlinerBranch(df, check_types, related_cols))
    /\ pc' = "missing"
    /\ UNCHANGED <<df, rules, Locals, skip_mask, call, ret>>

\* lines 164-171
MissingCheck ==
    /\ pc = "missing"
    /\ Appended(MissingBranch(df, check_types, related_cols))
    /\ pc' = "multi-select"
    /\ UNCHANGED <<df, rules, Locals, skip_mask, call, ret>>

\* lines 174-186
MultiSelectCheck ==
    /\ pc = "multi-select"
    /\ Appended(MultiSelectBranch(df, check_types, q, related_cols))
    /\ pc' = "openend_junk"
    /\ UNCHANGED <<df, rules, Locals, skip_mask, call, ret>>

\* lines 189-196
OpenEndJunkCheck ==
    /\ pc = "openend_junk"
    /\ Appended(OpenEndJunkBranch(df, check_types, related_cols))
    /\ pc' = "duplicate"
    /\ UNCHANGED <<df, rules, Locals, skip_mask, call, ret>>

\* lines 199-205, and back to the head of the loop
DuplicateCheck ==
    /\ pc = "duplicate"
    /\ Appended(DuplicateBranch(df, check_types, related_cols))
    /\ pc' = "rule"
    /\ UNCHANGED <<df, rules, Locals, skip_mask, call, ret>>

\* lines 207-208: the rule table is exhausted
CreateReport ==
    /\ pc = "rule"
    /\ pc' = "done"
    /\ UNCHANGED <<df, rules, Locals, skip_mask, report, origin, call, ret>>

Next ==
    \/ BeginRule
    \/ SkipCheck
    \/ RangeCheck
    \/ StraightlinerCheck
    \/ MissingCheck
    \/ MultiSelectCheck
    \/ OpenEndJunkCheck
    \/ DuplicateCheck
    \/ CreateReport

Spec == Init /\ [][Next]_vars

(***************************************************************************)
(* Direct calls of the two utilities, on arguments put together from       *)
(* their parts (so that what a call should return is known without         *)
(* parsing its text).                                                      *)
(***************************************************************************)
\* the largest numeric suffix of a range expression
MaxSuffix == 3
\* the largest number of OR-groups of a condition, and of AND-clauses of a group
MaxGroups == 2
MaxClauses == 2

\* column-name prefixes of the range expressions
Prefixes == {"A", "Q1_", "Auto"}

\* the AND-clauses conditions are built from; ok says whether the clause matches
\* the grammar column-comparator-literal
Clauses ==
    { [text |-> "Q1=1", ok |-> TRUE],
      [text |-> "A1 >= 1", ok |-> TRUE],
      [text |-> "Q2<>5", ok |-> TRUE],
      [text |-> "foo", ok |-> FALSE],
      [text |-> "Q1 is 1", ok |-> FALSE] }

ClauseLists == UNION {[1..n -> Clauses] : n \in 1..MaxClauses}
GroupLists == UNION {[1..n -> ClauseLists] : n \in 1..MaxGroups}

\* the text of a condition: its clauses joined by " and ", its groups by " OR "
GroupText(clauses) == Join([i \in 1..Len(clauses) |-> clauses[i].text], " and ")
ConditionText(groups) ==
    "if " \o Join([g \in 1..Len(groups) |-> GroupText(groups[g])], " OR ")

\* the columns prefix1, prefix2, ... whose suffix is in the set keep
ColumnList(prefix, keep) ==
    SelectSeq([i \in 1..(MaxSuffix + 1) |-> [name |-> prefix \o ToString(i), i |-> i]],
              LAMBDA c : c.i \in keep)

NoCall == [fn |-> "none", text |-> "", df_cols |-> <<>>, prefix |-> "", lo |-> 0, hi |-> 0,
           groups |-> <<>>]

InitFn ==
    /\ df \in Datasets
    /\ rules = <<>>
    /\ pc = "call"
    /\ q = ""
    /\ check_types = <<>>
    /\ conditions = <<>>
    /\ related_cols = <<>>
    /\ skip_mask = NoMask
    /\ report = <<>>
    /\ origin = <<>>
    /\ call = NoCall
    /\ ret = <<>>

\* expand_range("<prefix><lo> to <prefix><hi>", df_cols)
ExpandRangeCall ==
    /\ pc = "call"
    /\ \E prefix \in Prefixes, lo \in 1..MaxSuffix, hi \in 1..MaxSuffix,
          keep \in SUBSET (1..(MaxSuffix + 1)) :
        LET cols == ColumnList(prefix, keep)
            names == [i \in 1..Len(cols) |-> cols[i].name]
            expr == prefix \o ToString(lo) \o " to " \o prefix \o ToString(hi)
        IN /\ call' = [NoCall EXCEPT !.fn = "expand_range", !.text = expr,
                                     !.df_cols = names, !.prefix = prefix,
                                     !.lo = lo, !.hi = hi]
           /\ ret' = expand_range(expr, names)
    /\ pc' = "returned"
    /\ UNCHANGED <<df, rules, Locals, skip_mask, report, origin>>

\* get_skip_mask(condition_text, df)
GetSkipMaskCall ==
    /\ pc = "call"
    /\ \E groups \in GroupLists :
        /\ call' = [NoCall EXCEPT !.fn = "get_skip_mask", !.text = ConditionText(groups),
                                  !.groups = groups]
        /\ ret' = get_skip_mask(ConditionText(groups), df)
    /\ pc' = "returned"
    /\ UNCHANGED <<df, rules, Locals, skip_mask, report, origin>>

NextFn ==
    \/ ExpandRangeCall
    \/ GetSkipMaskCall

SpecFn == InitFn /\ [][NextFn]_vars

(***************************************************************************)
(* The claims.                                                             *)
(***************************************************************************)
\* the positions of report whose record the rule being evaluated appended
Own == {i \in 1..Len(report) : origin[i] = Len(rules)}

\* how many times the rule being evaluated appended the record rec
Count(rec) == Cardinality({i \in Own : report[i] = rec})

\* the respondent-level records of one check type on one column for one respondent
Flagged(check, col, r) ==
    \E i \in Own : /\ report[i].Check_Type = check
                   /\ report[i].Question = col
                   /\ report[i].RespondentID = r

\* a value that is null or text that trims to empty
IsBlank(c) == c.t = "null" \/ (c.t = "str" /\ \A i \in 1..Len(c.s) : Ch(c.s, i) = " ")

\* the applicability mask of the rule being evaluated: everyone without a skip mask
Applicable(r) == skip_mask = NoMask \/ skip_mask[r]

\* the condition text the rule being evaluated gives the check type
ConditionOf(check) == conditions[ListIndex(check, check_types)]

\* the target columns of the skip rule being evaluated
SkipTargets == skip_target_cols(SplitOnce(ConditionOf("skip"), "then")[2]).cols

\* the skip branch has just run on a rule 'if <cond> then <target>'
AfterSkip == pc = "range" /\ skip_mask # NoMask

AfterRange ==
    /\ pc = "straightliner"
    /\ InList("range", check_types)
    /\ ~RangeBounds(ConditionOf("range")).raised

\* C2: after the range branch of a rule with a well-formed condition min-max, a
\* respondent has a respondent-level Range record on a resolved column exactly
\* when the respondent is applicable and the numeric value at the column lies
\* outside [min, max].
C2_RangeExactlyOutside ==
    AfterRange =>
        \A i \in 1..Len(related_cols) : \A r \in Respondents :
            LET c == Cell(df, r, related_cols[i])
                b == RangeBounds(ConditionOf("range"))
            IN Flagged("Range", related_cols[i], r)
                   <=> (Applicable(r) /\ c.t = "num" /\ (c.n < b.min_val \/ c.n > b.max_val))

\* C3: after the missing branch, a respondent has a Missing record on a resolved
\* column exactly when the respondent is applicable under the rule's skip
\* condition and the value at the column is null.
C3_MissingOnlyApplicable ==
    (pc = "multi-select" /\ InList("missing", check_types)) =>
        \A i \in 1..Len(related_cols) : \A r \in Respondents :
            Flagged("Missing", related_cols[i], r)
                <=> (Applicable(r) /\ Cell(df, r, related_cols[i]).t = "null")

\* C4: a condition every OR-group of which has an AND-clause that does not match
\* the predicate grammar holds for no respondent.
C4_FailClosed ==
    (pc = "returned" /\ call.fn = "get_skip_mask" /\ ~ret.raised) =>
        \A r \in Respondents :
            ret.mask[r] =>
                \E g \in 1..Len(call.groups) :
                    \A p \in 1..Len(call.groups[g]) : call.groups[g][p].ok

\* C5: after the range branch of a rule whose condition does not parse as
\* min-max, the rule has appended exactly one rule-level Range record and no
\* respondent-level Range record.
C5_OneRuleLevelRecord ==
    (pc = "straightliner" /\ InList("range", check_types)
        /\ RangeBounds(ConditionOf("range")).raised) =>
        /\ Cardinality({i \in Own : /\ report[i].Check_Type = "Range"
                                    /\ report[i].RespondentID = None}) = 1
        /\ \A i \in Own : report[i].Check_Type = "Range" => report[i].RespondentID = None

\* every record of an earlier rule precedes every record of a later rule
RuleOrder ==
    \A i, j \in 1..Len(report) : i < j => origin[i] <= origin[j]

\* C6 as stated: rule order, and within one rule's one check type the
\* respondent-level records are in dataset respondent order.
C6_RespondentOrderPerCheck ==
    /\ RuleOrder
    /\ \A i, j \in 1..Len(report) :
        (/\ i < j
         /\ origin[i] = origin[j]
         /\ report[i].Check_Type = report[j].Check_Type
         /\ report[i].RespondentID # None
         /\ report[j].RespondentID # None)
            => report[i].RespondentID <= report[j].RespondentID

\* within one rule's one check type, one Question and one Issue the records are
\* in dataset respondent order
RespondentOrderPerColumn ==
    \A i, j \in 1..Len(report) :
        (/\ i < j
         /\ origin[i] = origin[j]
         /\ report[i].Check_Type = report[j].Check_Type
         /\ report[i].Question = report[j].Question
         /\ report[i].Issue = report[j].Issue)
            => report[i].RespondentID <= report[j].RespondentID

\* a step only appends to report
AppendOnly ==
    /\ Len(report) <= Len(report')
    /\ SubSeq(report', 1, Len(report)) = report

\* C6 as amended: the list is only ever appended to, every record of an earlier
\* rule precedes every record of a later rule, and within one rule's one check
\* type, one Question and one Issue the records are in dataset respondent order.
C6_ReportOrder ==
    /\ [](RuleOrder /\ RespondentOrderPerColumn)
    /\ [][AppendOnly]_vars

\* C6 witness: records of two rules, and two respondents flagged by one rule for
\* the same check, column and issue
C6_Witness ==
    /\ \E i, j \in 1..Len(report) : origin[i] < origin[j]
    /\ \E i, j \in 1..Len(report) :
        /\ i < j
        /\ origin[i] = origin[j]
        /\ report[i].Check_Type = report[j].Check_Type
        /\ report[i].Question = report[j].Question
        /\ report[i].Issue = report[j].Issue
        /\ report[i].RespondentID < report[j].RespondentID

\* the skip condition of the rule being evaluated compares, with <, >, <= or >=,
\* a column with a literal that is not a number
NonNumericComparand ==
    /\ InList("skip", check_types)
    /\ ListIndex("skip", check_types) <= Len(conditions)
    /\ Contains("then", ConditionOf("skip"))
    /\ get_skip_mask(SplitOnce(ConditionOf("skip"), "then")[1], df).raised

\* C7: a numeric comparator with a non-numeric side never ends the run with an
\* unhandled fault.
C7_NumericComparatorNeverAborts == NonNumericComparand => pc # "fault"

\* the columns prefix{i}, i in lo..hi, that are among df_cols, in ascending order
ExpectedRange(prefix, lo, hi, df_cols) ==
    SelectSeq([i \in 1..(hi - lo + 1) |-> prefix \o ToString(lo + i - 1)],
              LAMBDA name : InList(name, df_cols))

\* C8: expand_range("<prefix><a> to <prefix><b>", df_cols) returns exactly the
\* names prefix{i}, i in a..b, that are dataset columns, in ascending order.
C8_ExpandRangeExact ==
    (pc = "returned" /\ call.fn = "expand_range") =>
        /\ ~ret.raised
        /\ ret.cols = ExpectedRange(call.prefix, call.lo, call.hi, call.df_cols)

\* the respondent gave an answer on every item and all the answers are the same
IdenticalOnEveryItem(r) ==
    \A i, j \in 1..Len(related_cols) :
        /\ Cell(df, r, related_cols[i]).t # "null"
        /\ Cell(df, r, related_cols[i]) = Cell(df, r, related_cols[j])

\* C9: after the straightliner branch, a rule that resolves to at most one column
\* has appended no Straightliner record, and one that resolves to more has
\* appended exactly one for a respondent if the respondent gave the identical
\* answer on every item, none otherwise.
C9_StraightlinerIffIdentical ==
    (pc = "missing" /\ InList("straightliner", check_types)) =>
        \A r \in Respondents :
            Cardinality({i \in Own : /\ report[i].Check_Type = "Straightliner"
                                     /\ report[i].RespondentID = r})
                = IF Len(related_cols) > 1 /\ IdenticalOnEveryItem(r) THEN 1 ELSE 0

\* the multi-select branch has just run
AfterMultiSelect == pc = "openend_junk" /\ InList("multi-select", check_types)

\* C10: after the multi-select branch, a respondent has one "Invalid value (not
\* 0/1)" record on a resolved column exactly when the value there is not 0 or 1,
\* and a respondent whose resolved columns are all 0 has exactly one "No options
\* selected" record for the question and no invalid-value record.
C10_MultiSelect ==
    AfterMultiSelect =>
        /\ \A i \in 1..Len(related_cols) : \A r \in Respondents :
               Count(Rec(r, related_cols[i], "Multi-Select", "Invalid value (not 0/1)"))
                   = IF Cell(df, r, related_cols[i]) \in {Num(0), Num(1)} THEN 0 ELSE 1
        /\ \A r \in Respondents :
               (/\ Len(related_cols) > 0
                /\ \A i \in 1..Len(related_cols) : Cell(df, r, related_cols[i]) = Num(0))
                   => /\ Count(Rec(r, q, "Multi-Select", "No options selected")) = 1
                      /\ \A j \in Own :
                             report[j].RespondentID = r
                                 => report[j].Issue # "Invalid value (not 0/1)"

\* C10 witness: one rule flagged an all-zero respondent as "No options selected"
\* and another respondent's value as invalid
C10_Witness ==
    /\ AfterMultiSelect
    /\ \E r \in Respondents :
        /\ \A i \in 1..Len(related_cols) : Cell(df, r, related_cols[i]) = Num(0)
        /\ Count(Rec(r, q, "Multi-Select", "No options selected")) = 1
    /\ \E r \in Respondents : \E i \in 1..Len(related_cols) :
        Count(Rec(r, related_cols[i], "Multi-Select", "Invalid value (not 0/1)")) = 1

====
